---- MODULE Spec2Model ----
(***************************************************************************)
(* Paystack refunds pipelines: upload_refunds.py, upload_refund_daily.py,  *)
(* initial_upload_to_bq.py and download_all_refunds.py.                    *)
(*                                                                         *)
(* A DataFrame is [columns, data, n]: the column labels, one sequence of   *)
(* n cells per column.  A cell's kind k is one of the missing values       *)
(* "nan", "NA", "NaT", "decnan", or "str", "int", "float", "bool", "ts",   *)
(* "date", "dec".  A float is held in hundredths.                          *)
(***************************************************************************)
EXTENDS Integers, Sequences, FiniteSets, TLC

VARIABLES
    raw,          \* normalizer: the CSV text table handed to pd.read_csv
    out,          \* normalizer: enforce_schema(read_csv(raw)), or None
    out2,         \* normalizer: enforce_schema applied to out, or None
    variant,      \* which script runs (its enforce_schema / main)
    pandas,       \* the pandas build: "new" (>= 2.1) or "old"
    environ,      \* the environment variables that are set
    pc,           \* where main is
    pending,      \* what leaves the try block: "none", "return", "exit1", "raise"
    conn,         \* how connect_sftp ended, or "none"
    transport,    \* paramiko.Transport: "none", "open", "closed"
    sftp,         \* paramiko.SFTPClient: "none", "open", "closed"
    files,        \* number of remote files the listing returned, or -1
    nth,          \* files of the current loop already attempted
    log,          \* the attempts of this run, in order
    local,        \* the CSV files of downloads/, in glob order
    df_list,      \* the normalized tables collected for the merge
    merged,       \* pd.concat(df_list), or None
    destination,  \* the rows of the BigQuery table, or None before any load
    before,       \* the BigQuery table as the run found it
    did,          \* the operations this run has attempted
    exit_code,    \* the process exit status, or -1 while running
    escaped       \* an exception left main (traceback)

nvars == <<raw, out, out2>>
pvars == <<environ, pc, pending, conn, transport, sftp, files, nth, log, local,
           df_list, merged, destination, before,
           did, exit_code, escaped>>
vars == <<nvars, variant, pandas, pvars>>

None == [none |-> TRUE]

\* ------------------------------------------------------------------ bounds
MaxRows == 2        \* data rows of a CSV table (one fewer when it has several columns)
MaxFiles == 2       \* files a listing returns, files found in downloads/

\* ------------------------------------------------------------------ schema
Field(name, type) == [name |-> name, field_type |-> type]

BIGQUERY_SCHEMA == <<
    Field("unique_id", "STRING"),
    Field("refund_id", "INTEGER"),
    Field("event_type", "STRING"),
    Field("created_at", "TIMESTAMP"),
    Field("integration", "INTEGER"),
    Field("business_name", "STRING"),
    Field("status", "STRING"),
    Field("domain", "STRING"),
    Field("currency", "STRING"),
    Field("transaction", "INTEGER"),
    Field("dispute", "INTEGER"),
    Field("channel", "STRING"),
    Field("fully_deducted", "BOOLEAN"),
    Field("refunded_by", "STRING"),
    Field("refunded_at", "TIMESTAMP"),
    Field("expected_at", "TIMESTAMP"),
    Field("deducted_amount", "NUMERIC"),
    Field("amount", "NUMERIC"),
    Field("customer_note", "STRING"),
    Field("merchant_note", "STRING"),
    Field("transaction_reference", "STRING"),
    Field("settlement_date", "DATE"),
    Field("settled", "BOOLEAN"),
    Field("customer_id", "INTEGER"),
    Field("customer_email", "STRING"),
    Field("customer_phone", "STRING"),
    Field("customer_first_name", "STRING"),
    Field("customer_last_name", "STRING"),
    Field("customer_code", "STRING"),
    Field("merge_timestamp", "DATE") >>

BQ_TO_PD_DTYPES ==
    [t \in {"STRING", "INTEGER", "NUMERIC", "BOOLEAN", "DATE", "TIMESTAMP"} |->
        CASE t = "STRING" -> "string"
          [] t = "INTEGER" -> "Int64"
          [] t = "NUMERIC" -> "float64"
          [] t = "BOOLEAN" -> "boolean"
          [] t = "DATE" -> "string"
          [] t = "TIMESTAMP" -> "datetime64[ns]"]

SchemaNames == [i \in 1..Len(BIGQUERY_SCHEMA) |-> BIGQUERY_SCHEMA[i].name]

\* The two texts of enforce_schema: upload_refunds.py's, and the one
\* initial_upload_to_bq.py and upload_refund_daily.py share word for word.
Normalizers == {"upload_refunds", "initial_upload_to_bq"}

\* --------------------------------------------------------- sequence helpers

RECURSIVE Flatten(_)
Flatten(ss) == IF ss = <<>> THEN <<>> ELSE Head(ss) \o Flatten(Tail(ss))

Positions(s, x) == {i \in 1..Len(s) : s[i] = x}

RECURSIVE SortedSeq(_)
SortedSeq(S) ==
    IF S = {} THEN <<>>
    ELSE LET m == CHOOSE x \in S : \A y \in S : x <= y
         IN <<m>> \o SortedSeq(S \ {m})

\* ------------------------------------------------- column-name canonicalization
\* The string methods work on a label's characters.
Whitespace == {" ", "\t"}

UpperToLower ==
    [c \in {"A", "B", "C", "D", "E", "F", "G", "H", "I", "J", "K", "L", "M",
            "N", "O", "P", "Q", "R", "S", "T", "U", "V", "W", "X", "Y", "Z"} |->
        CASE c = "A" -> "a" [] c = "B" -> "b" [] c = "C" -> "c" [] c = "D" -> "d"
          [] c = "E" -> "e" [] c = "F" -> "f" [] c = "G" -> "g" [] c = "H" -> "h"
          [] c = "I" -> "i" [] c = "J" -> "j" [] c = "K" -> "k" [] c = "L" -> "l"
          [] c = "M" -> "m" [] c = "N" -> "n" [] c = "O" -> "o" [] c = "P" -> "p"
          [] c = "Q" -> "q" [] c = "R" -> "r" [] c = "S" -> "s" [] c = "T" -> "t"
          [] c = "U" -> "u" [] c = "V" -> "v" [] c = "W" -> "w" [] c = "X" -> "x"
          [] c = "Y" -> "y" [] c = "Z" -> "z"]

RECURSIVE LStrip(_)
LStrip(l) == IF l # <<>> /\ Head(l) \in Whitespace THEN LStrip(Tail(l)) ELSE l

RECURSIVE RStrip(_)
RStrip(l) ==
    IF l # <<>> /\ l[Len(l)] \in Whitespace
    THEN RStrip(SubSeq(l, 1, Len(l) - 1)) ELSE l

StrStrip(l) == RStrip(LStrip(l))

LowerChar(c) == IF c \in DOMAIN UpperToLower THEN UpperToLower[c] ELSE c
StrLower(l) == [j \in 1..Len(l) |-> LowerChar(l[j])]

SpaceToUnderscore(c) == IF c = " " THEN "_" ELSE c
StrReplaceSpace(l) == [j \in 1..Len(l) |-> SpaceToUnderscore(l[j])]

RECURSIVE Join(_)
Join(l) == IF l = <<>> THEN "" ELSE Head(l) \o Join(Tail(l))

\* The characters of every label the model meets (a TLA+ string is atomic):
\* Join(Spelling[s]) = s for each.
Spellings == {
    <<"u", "n", "i", "q", "u", "e", "_", "i", "d">>,
    <<"r", "e", "f", "u", "n", "d", "_", "i", "d">>,
    <<"e", "v", "e", "n", "t", "_", "t", "y", "p", "e">>,
    <<"c", "r", "e", "a", "t", "e", "d", "_", "a", "t">>,
    <<"i", "n", "t", "e", "g", "r", "a", "t", "i", "o", "n">>,
    <<"b", "u", "s", "i", "n", "e", "s", "s", "_", "n", "a", "m", "e">>,
    <<"s", "t", "a", "t", "u", "s">>,
    <<"d", "o", "m", "a", "i", "n">>,
    <<"c", "u", "r", "r", "e", "n", "c", "y">>,
    <<"t", "r", "a", "n", "s", "a", "c", "t", "i", "o", "n">>,
    <<"d", "i", "s", "p", "u", "t", "e">>,
    <<"c", "h", "a", "n", "n", "e", "l">>,
    <<"f", "u", "l", "l", "y", "_", "d", "e", "d", "u", "c", "t", "e", "d">>,
    <<"r", "e", "f", "u", "n", "d", "e", "d", "_", "b", "y">>,
    <<"r", "e", "f", "u", "n", "d", "e", "d", "_", "a", "t">>,
    <<"e", "x", "p", "e", "c", "t", "e", "d", "_", "a", "t">>,
    <<"d", "e", "d", "u", "c", "t", "e", "d", "_", "a", "m", "o", "u", "n", "t">>,
    <<"a", "m", "o", "u", "n", "t">>,
    <<"c", "u", "s", "t", "o", "m", "e", "r", "_", "n", "o", "t", "e">>,
    <<"m", "e", "r", "c", "h", "a", "n", "t", "_", "n", "o", "t", "e">>,
    <<"t", "r", "a", "n", "s", "a", "c", "t", "i", "o", "n", "_", "r", "e", "f", "e", "r", "e", "n", "c", "e">>,
    <<"s", "e", "t", "t", "l", "e", "m", "e", "n", "t", "_", "d", "a", "t", "e">>,
    <<"s", "e", "t", "t", "l", "e", "d">>,
    <<"c", "u", "s", "t", "o", "m", "e", "r", "_", "i", "d">>,
    <<"c", "u", "s", "t", "o", "m", "e", "r", "_", "e", "m", "a", "i", "l">>,
    <<"c", "u", "s", "t", "o", "m", "e", "r", "_", "p", "h", "o", "n", "e">>,
    <<"c", "u", "s", "t", "o", "m", "e", "r", "_", "f", "i", "r", "s", "t", "_", "n", "a", "m", "e">>,
    <<"c", "u", "s", "t", "o", "m", "e", "r", "_", "l", "a", "s", "t", "_", "n", "a", "m", "e">>,
    <<"c", "u", "s", "t", "o", "m", "e", "r", "_", "c", "o", "d", "e">>,
    <<"m", "e", "r", "g", "e", "_", "t", "i", "m", "e", "s", "t", "a", "m", "p">>,
    <<"R", "e", "f", "u", "n", "d", " ", "I", "D">>,
    <<"A", "m", "o", "u", "n", "t", " ">>,
    <<" ", "a", "m", "o", "u", "n", "t">>,
    <<"S", "t", "a", "t", "u", "s">>,
    <<"C", "r", "e", "a", "t", "e", "d", " ", "A", "t">>,
    <<"S", "e", "t", "t", "l", "e", "m", "e", "n", "t", " ", "D", "a", "t", "e">>,
    <<"S", "E", "T", "T", "L", "E", "D">>,
    <<"F", "o", "o">>,
    <<"f", "o", "o">>,
    <<"F", "o", "o", ".", "1">> }

Spelling == [s \in {Join(l) : l \in Spellings} |-> CHOOSE l \in Spellings : Join(l) = s]

\* df.columns.str.strip().str.lower().str.replace(' ', '_') on one label
CanonicalLabel(s) == Join(StrReplaceSpace(StrLower(StrStrip(Spelling[s]))))

\* ----------------------------------------------------------------- cells
\* [k, n, s, e]: kind, number, text, exponent or nanoseconds.
Cell(k, n, s, e) == [k |-> k, n |-> n, s |-> s, e |-> e]
NaN == Cell("nan", 0, "", 0)        \* float NaN: an empty CSV field
NA == Cell("NA", 0, "", 0)          \* pd.NA
NaT == Cell("NaT", 0, "", 0)        \* missing datetime
DecNaN == Cell("decnan", 0, "", 0)  \* decimal.Decimal("nan")
StrCell(text) == Cell("str", 0, text, 0)
IntCell(n) == Cell("int", n, "", 0)
FloatCell(h) == Cell("float", h, "", 0)             \* h hundredths
BoolCell(b) == Cell("bool", IF b THEN 1 ELSE 0, "", 0)
TsCell(date, secs, ns) == Cell("ts", secs, date, ns)
DateCell(date) == Cell("date", 0, date, 0)
DecCell(coef, exp) == Cell("dec", coef, "", exp)    \* coef * 10^exp

IsNull(c) == c.k \in {"nan", "NA", "NaT", "decnan"}

\* str(float) as Python prints it, for a float held in hundredths: the
\* shortest digits that round-trip, at least one after the point.
FloatFracDigits(h) == IF (h % 100) % 10 = 0 THEN 1 ELSE 2
FloatStr(h) ==
    LET whole == h \div 100
        frac == h % 100
    IN IF FloatFracDigits(h) = 1
       THEN ToString(whole) \o "." \o ToString(frac \div 10)
       ELSE ToString(whole) \o "." \o (IF frac < 10 THEN "0" ELSE "") \o ToString(frac)

\* decimal.Decimal(str(x)) for a float x: the digits str(x) prints.
DecimalOfFloatStr(h) ==
    IF FloatFracDigits(h) = 1 THEN DecCell(h \div 10, 0 - 1) ELSE DecCell(h, 0 - 2)

\* float(d) for a Decimal cell with exp in {0, -1, -2}, in hundredths.
FloatOfDecimal(d) ==
    CASE d.e = 0 -> d.n * 100
      [] d.e = 0 - 1 -> d.n * 10
      [] d.e = 0 - 2 -> d.n

\* ----------------------------------------------------------- pd.read_csv
\* A CSV field is given by what pandas' tokenizer makes of it: its lexical
\* class, its value (a float in hundredths, a boolean as 0/1) and its text.
CsvEmpty == [lex |-> "empty", v |-> 0, text |-> ""]
CsvInt == [lex |-> "int", v |-> 42, text |-> "42"]
CsvFloat == [lex |-> "float", v |-> 1999, text |-> "19.99"]
CsvBool == [lex |-> "bool", v |-> 1, text |-> "True"]
CsvTime == [lex |-> "time", v |-> 0, text |-> "2024-01-05T10:00:00Z"]
CsvWord == [lex |-> "word", v |-> 0, text |-> "abc"]
CsvFields == {CsvEmpty, CsvInt, CsvFloat, CsvBool, CsvTime, CsvWord}

\* The date-time texts pandas parses, with the instant each denotes.
TimeTable ==
    [t \in {"2024-01-05T10:00:00Z"} |-> TsCell("2024-01-05", 36000, 0)]

\* The dtype pd.read_csv infers for a column of fields.
InferDtype(fields) ==
    LET present == {i \in 1..Len(fields) : fields[i].lex # "empty"}
        lexes == {fields[i].lex : i \in present}
        full == Len(fields) = Cardinality(present)
    IN CASE present = {} -> "float64"
         [] present # {} /\ lexes = {"int"} /\ full -> "int64"
         [] present # {} /\ lexes \subseteq {"int", "float"} /\ ~(lexes = {"int"} /\ full) -> "float64"
         [] present # {} /\ lexes = {"bool"} /\ full -> "bool"
         [] OTHER -> "object"

\* An object column whose fields are all booleans or blanks holds bool
\* objects; any other object column holds the fields' text.
ReadField(dtype, boolObjects, f) ==
    CASE f.lex = "empty" -> NaN
      [] f.lex # "empty" /\ dtype = "int64" -> IntCell(f.v)
      [] f.lex # "empty" /\ dtype = "float64" ->
            FloatCell(IF f.lex = "int" THEN f.v * 100 ELSE f.v)
      [] f.lex # "empty" /\ dtype = "bool" -> BoolCell(f.v = 1)
      [] f.lex # "empty" /\ dtype = "object" ->
            IF boolObjects THEN BoolCell(f.v = 1) ELSE StrCell(f.text)

ReadColumn(fields) ==
    LET lexes == {fields[i].lex : i \in 1..Len(fields)} \ {"empty"}
        dtype == InferDtype(fields)
    IN [i \in 1..Len(fields) |-> ReadField(dtype, lexes = {"bool"}, fields[i])]

\* pandas renames a repeated header label: x, x.1, x.2, ...
MangleDupeCols(header) ==
    [i \in 1..Len(header) |->
        LET earlier == Cardinality({j \in 1..(i - 1) : header[j] = header[i]})
        IN IF earlier = 0 THEN header[i]
           ELSE header[i] \o "." \o ToString(earlier)]

\* A CSV text table is [header, cols, n].
read_csv(t) ==
    [columns |-> MangleDupeCols(t.header),
     data |-> [j \in 1..Len(t.cols) |-> ReadColumn(t.cols[j])],
     n |-> t.n]

\* ------------------------------------------------------------ coercions
\* Each returns [ok, col]: ok = FALSE when pandas raises.
Raised == [ok |-> FALSE, col |-> <<>>]
Returned(col) == [ok |-> TRUE, col |-> col]
AllNA(n) == [i \in 1..n |-> NA]

\* An integer taken as nanoseconds since the epoch.
EpochTs(ns) == TsCell("1970-01-01", 0, ns)

\* A to_datetime that parses text only: a date object is not taken back.
ToDatetimeCellTextOnly(c) ==
    CASE c.k = "str" -> IF c.s \in DOMAIN TimeTable THEN TimeTable[c.s] ELSE NaT
      [] c.k = "ts" -> c
      [] OTHER -> NaT

\* pd.to_datetime(..., errors="coerce") on one value.
ToDatetimeCell(c) ==
    CASE c.k = "str" -> IF c.s \in DOMAIN TimeTable THEN TimeTable[c.s] ELSE NaT
      [] c.k = "int" -> EpochTs(c.n)
      [] c.k = "float" -> EpochTs(c.n \div 100)
      [] c.k = "ts" -> c
      [] c.k = "date" -> TsCell(c.s, 0, 0)
      [] OTHER -> NaT

to_datetime(col) == [i \in 1..Len(col) |-> ToDatetimeCell(col[i])]

\* Series.dt.date
DtDateCell(c) == IF c.k = "ts" THEN DateCell(c.s) ELSE NaT
dt_date(col) == [i \in 1..Len(col) |-> DtDateCell(col[i])]

\* One value cast to a dtype: [ok, c].
CastCell(dtype, c) ==
    CASE dtype = "string" ->
            [ok |-> TRUE,
             c |-> CASE c.k = "str" -> c
                     [] c.k = "int" -> StrCell(ToString(c.n))
                     [] c.k = "float" -> StrCell(FloatStr(c.n))
                     [] c.k = "bool" -> StrCell(IF c.n = 1 THEN "True" ELSE "False")
                     [] OTHER -> NA]
      [] dtype = "Int64" ->
            CASE c.k = "int" -> [ok |-> TRUE, c |-> c]
              [] c.k = "float" /\ c.n % 100 = 0 -> [ok |-> TRUE, c |-> IntCell(c.n \div 100)]
              [] c.k \in {"nan", "NA"} -> [ok |-> TRUE, c |-> NA]
              [] OTHER -> [ok |-> FALSE, c |-> c]
      [] dtype = "boolean" ->
            CASE c.k = "bool" -> [ok |-> TRUE, c |-> c]
              [] c.k = "int" /\ c.n \in {0, 1} -> [ok |-> TRUE, c |-> BoolCell(c.n = 1)]
              [] c.k = "float" /\ c.n \in {0, 100} -> [ok |-> TRUE, c |-> BoolCell(c.n = 100)]
              [] c.k \in {"nan", "NA"} -> [ok |-> TRUE, c |-> NA]
              [] OTHER -> [ok |-> FALSE, c |-> c]
      [] dtype = "float64" ->
            CASE c.k = "float" -> [ok |-> TRUE, c |-> c]
              [] c.k = "int" -> [ok |-> TRUE, c |-> FloatCell(c.n * 100)]
              [] c.k = "bool" -> [ok |-> TRUE, c |-> FloatCell(c.n * 100)]
              [] c.k = "dec" -> [ok |-> TRUE, c |-> FloatCell(FloatOfDecimal(c))]
              [] c.k \in {"nan", "decnan"} -> [ok |-> TRUE, c |-> NaN]
              [] OTHER -> [ok |-> FALSE, c |-> c]   \* float(pd.NA), float("abc")

\* Series.astype(dtype): raises when one value cannot be cast.  A bool
\* dtype column casts to Int64; bool objects beside blanks do not.
astype(col, dtype) ==
    LET cast == [i \in 1..Len(col) |-> CastCell(dtype, col[i])]
        boolDtype == col # <<>> /\ \A i \in 1..Len(col) : col[i].k = "bool"
    IN IF dtype = "Int64" /\ boolDtype
       THEN Returned([i \in 1..Len(col) |-> IntCell(col[i].n)])
       ELSE IF \A i \in 1..Len(col) : cast[i].ok
            THEN Returned([i \in 1..Len(col) |-> cast[i].c])
            ELSE Raised

\* Series.astype(dtype, errors="ignore"): the original on failure.
astype_ignore(col, dtype) ==
    LET r == astype(col, dtype) IN IF r.ok THEN r ELSE Returned(col)

\* Series.astype(str).map(decimal.Decimal) on a float64 column.
DecimalCell(c) == IF c.k = "float" THEN DecimalOfFloatStr(c.n) ELSE DecNaN
str_map_decimal(col) == [i \in 1..Len(col) |-> DecimalCell(col[i])]

\* -------------------------------------------------------- enforce_schema
\* The dtype of a column as pandas holds it.
IsObjectCol(col) ==
    LET kinds == {col[i].k : i \in 1..Len(col)}
    IN ~(\/ (kinds # {} /\ kinds \subseteq {"int"})
         \/ (kinds # {} /\ kinds \subseteq {"float", "nan"})
         \/ kinds = {"bool"})

\* The try block on df[col] when one column carries the label: a Series.
CoerceSeries(v, bq_type, col) ==
    CASE bq_type = "TIMESTAMP" -> Returned(<<to_datetime(col)>>)
      [] bq_type = "DATE" -> Returned(<<dt_date(to_datetime(col))>>)
      [] bq_type = "NUMERIC" /\ v = "upload_refunds" ->
            LET f == astype(col, "float64")
            IN IF f.ok THEN Returned(<<str_map_decimal(f.col)>>) ELSE Raised
      [] OTHER -> Returned(<<astype_ignore(col, BQ_TO_PD_DTYPES[bq_type]).col>>)

\* The try block on df[col] when several columns carry the label: a
\* DataFrame.  pd.to_datetime refuses duplicate keys; DataFrame.map exists
\* from pandas 2.1; DataFrame.astype casts a numpy dtype block by block (the
\* object columns together) and an extension dtype column by column,
\* passing errors="ignore" on only in the new build.
CoerceFrame(v, build, bq_type, cols) ==
    LET idx == 1..Len(cols)
        dtype == BQ_TO_PD_DTYPES[bq_type]
        strict == [j \in idx |-> astype(cols[j], dtype)]
        objFails == \E j \in idx : IsObjectCol(cols[j]) /\ ~strict[j].ok
    IN CASE bq_type \in {"TIMESTAMP", "DATE"} -> Raised
         [] bq_type = "NUMERIC" /\ v = "upload_refunds" ->
               IF build = "new" /\ \A j \in idx : strict[j].ok
               THEN Returned([j \in idx |-> str_map_decimal(strict[j].col)])
               ELSE Raised
         [] bq_type = "NUMERIC" /\ v # "upload_refunds" ->
               Returned([j \in idx |->
                   IF IsObjectCol(cols[j]) /\ objFails THEN cols[j]
                   ELSE astype_ignore(cols[j], dtype).col])
         [] OTHER ->
               IF build = "new"
               THEN Returned([j \in idx |-> astype_ignore(cols[j], dtype).col])
               ELSE IF \A j \in idx : strict[j].ok
                    THEN Returned([j \in idx |-> strict[j].col])
                    ELSE Raised

\* df[col] = value for the columns at positions `at`: cols[j] goes to at[j].
RECURSIVE SetColumns(_, _, _, _)
SetColumns(data, at, cols, j) ==
    IF j > Len(at) THEN data
    ELSE SetColumns([data EXCEPT ![at[j]] = cols[j]], at, cols, j + 1)

\* One pass of the loop body for one schema field.
EnforceField(v, build, df, field) ==
    LET col == field.name
        found == Positions(df.columns, col)
        df1 == IF found = {}                    \* if col not in df.columns
               THEN [df EXCEPT !.columns = Append(@, col),
                               !.data = Append(@, AllNA(df.n))]
               ELSE df
        at == IF found = {} THEN <<Len(df1.columns)>> ELSE SortedSeq(found)
        sel == [j \in 1..Len(at) |-> df1.data[at[j]]]
        r == IF Len(at) = 1
             THEN CoerceSeries(v, field.field_type, sel[1])
             ELSE CoerceFrame(v, build, field.field_type, sel)
        value == IF r.ok THEN r.col
                 ELSE [j \in 1..Len(at) |-> AllNA(df1.n)]  \* except: df[col] = pd.NA
    IN [df1 EXCEPT !.data = SetColumns(@, at, value, 1)]

RECURSIVE EnforceFields(_, _, _, _)
EnforceFields(v, build, df, i) ==
    IF i > Len(BIGQUERY_SCHEMA) THEN df
    ELSE LET next == EnforceField(v, build, df, BIGQUERY_SCHEMA[i])
         IN IF next.n = df.n    \* always: the loop adds and drops no row
            THEN EnforceFields(v, build, next, i + 1) ELSE df

\* df[[f.name for f in BIGQUERY_SCHEMA]]: every column carrying each name.
Project(df, names) ==
    LET picks == Flatten([i \in 1..Len(names) |-> SortedSeq(Positions(df.columns, names[i]))])
    IN [columns |-> [j \in 1..Len(picks) |-> df.columns[picks[j]]],
        data |-> [j \in 1..Len(picks) |-> df.data[picks[j]]],
        n |-> df.n]

enforce_schema(v, build, df) ==
    LET renamed == [df EXCEPT !.columns = [i \in 1..Len(df.columns) |-> CanonicalLabel(df.columns[i])]]
    IN Project(EnforceFields(v, build, renamed, 1), SchemaNames)

\* ------------------------------------------------------- normalizer inputs
Headers == {
    <<"Status">>, <<"Refund ID">>, <<"Created At">>,
    <<"Settlement Date">>, <<"Amount ">>, <<"SETTLED">>,
    <<"Amount ", " amount">>, <<"Status", "status">>,
    <<"Created At", "created_at">>, <<"Status", "Refund ID">>,
    <<"Foo", "Refund ID">>, <<"Foo", "Foo">> }

\* A table of several columns draws its fields from a blank, a number and
\* a word, and has one row fewer.
WideFields == {CsvEmpty, CsvInt, CsvWord}
RowsOf(header) == IF Len(header) = 1 THEN MaxRows ELSE MaxRows - 1
FieldsOf(header) == IF Len(header) = 1 THEN CsvFields ELSE WideFields

RawTables ==
    UNION {UNION {{[header |-> h, n |-> n, cols |-> c] :
                      c \in [1..Len(h) -> [1..n -> FieldsOf(h)]]} :
                  n \in 0..RowsOf(h)} : h \in Headers}

PandasBuilds == {"new", "old"}

\* ------------------------------------------------------ normalizer machine
\* No pipeline runs while the normalizer is exercised alone.
PipelineIdle ==
    /\ environ = {} /\ pc = "idle" /\ pending = "none" /\ conn = "none"
    /\ transport = "none" /\ sftp = "none" /\ files = 0 - 1 /\ nth = 0
    /\ log = <<>> /\ local = <<>> /\ df_list = <<>> /\ merged = None
    /\ did = {} /\ exit_code = 0 - 1 /\ escaped = FALSE

NormInit ==
    /\ raw \in RawTables
    /\ variant \in Normalizers
    /\ pandas \in PandasBuilds
    /\ out = None
    /\ out2 = None
    /\ PipelineIdle
    /\ destination = None /\ before = None

\* df = pd.read_csv(f); df = enforce_schema(df)
Normalize ==
    /\ out = None
    /\ out' = enforce_schema(variant, pandas, read_csv(raw))
    /\ UNCHANGED <<raw, out2, variant, pandas, pvars>>

\* enforce_schema applied to its own result
Renormalize ==
    /\ out # None
    /\ out2 = None
    /\ out2' = enforce_schema(variant, pandas, out)
    /\ UNCHANGED <<raw, out, variant, pandas, pvars>>

NormNext == Normalize \/ Renormalize

SpecNorm == NormInit /\ [][NormNext]_vars

\* ------------------------------------------------------ normalizer claims
frame == read_csv(raw)

\* The raw columns whose canonical label is `name`.
RawPositions(name) ==
    {j \in 1..Len(frame.columns) : CanonicalLabel(frame.columns[j]) = name}

\* Whether one value can be coerced to a logical type, and what it becomes.
Coercible(bq_type, c) ==
    IF bq_type \in {"TIMESTAMP", "DATE"} THEN IsNull(c) \/ ToDatetimeCell(c) # NaT
    ELSE CastCell(BQ_TO_PD_DTYPES[bq_type], c).ok

CoercedAlone(v, bq_type, c) ==
    CASE bq_type = "TIMESTAMP" -> ToDatetimeCell(c)
      [] bq_type = "DATE" -> DtDateCell(ToDatetimeCell(c))
      [] bq_type = "NUMERIC" /\ v = "upload_refunds" -> DecimalCell(CastCell("float64", c).c)
      [] OTHER -> CastCell(BQ_TO_PD_DTYPES[bq_type], c).c

\* C1: enforce_schema returns exactly the columns of BIGQUERY_SCHEMA, each
\* once, in BIGQUERY_SCHEMA order, whatever the raw labels are.
C1_ExactSchemaColumns == out # None => out.columns = SchemaNames

\* C2: a raw value that cannot be coerced to its column's type is null in
\* the output, and the coercible values of the same column keep their
\* coerced values (stated for the columns whose label is carried once).
C2_UncoercibleBecomesNull ==
    (out # None /\ out.columns = SchemaNames) =>
        \A p \in 1..Len(BIGQUERY_SCHEMA) :
            LET f == BIGQUERY_SCHEMA[p]
                src == RawPositions(f.name)
            IN Cardinality(src) = 1 =>
                  LET j == CHOOSE x \in src : TRUE
                  IN \A i \in 1..raw.n :
                        LET c == frame.data[j][i]
                        IN IF Coercible(f.field_type, c)
                           THEN out.data[p][i] = CoercedAlone(variant, f.field_type, c)
                           ELSE IsNull(out.data[p][i])

\* C6: enforce_schema applied to its own result returns that result: the
\* same columns in the same order, the same rows, the same values.
C6_Idempotent == out2 # None => out2 = out

\* A second pass over a table with a date, a Decimal and an uncoerced text.
C6_Witness ==
    /\ out2 # None
    /\ raw.n > 0
    /\ \E p \in 1..Len(out.columns) : \E i \in 1..out.n :
          out.data[p][i].k \in {"date", "dec", "ts", "int"}

\* ------------------------------------------------------------ configuration
Scripts == {"upload_refunds", "upload_refund_daily", "initial_upload_to_bq",
            "download_all_refunds"}
SftpScripts == Scripts \ {"initial_upload_to_bq"}
LoadScripts == Scripts \ {"download_all_refunds"}

Setting(name, env, default) == [name |-> name, env |-> env, default |-> default]

\* The module-level os.getenv reads of each script: the setting, the
\* environment variable it is read from, and whether the call has a default.
Settings(script) ==
    CASE script = "upload_refunds" ->
           { Setting("SFTP_HOST", "SFTP_HOST", TRUE),
             Setting("SFTP_PORT", "SFTP_PORT", TRUE),
             Setting("SFTP_USER", "SFTP_USER", TRUE),
             Setting("SFTP_PASS", "SFTP_PASS", FALSE),
             Setting("SFTP_REMOTE_DIR", "SFTP_REMOTE_DIR", TRUE),
             Setting("SFTP_REMOTE_PATTERN", "SFTP_REMOTE_PATTERN", TRUE),
             Setting("PROJECT_ID", "BQ_PROJECT", FALSE),
             Setting("DATASET_ID", "BQ_DATASET", FALSE),
             Setting("TABLE_ID", "BQ_TABLE", FALSE) }
      [] script = "upload_refund_daily" ->
           { Setting("SFTP_HOST", "SFTP_HOST", FALSE),
             Setting("SFTP_PORT", "SFTP_PORT", TRUE),
             Setting("SFTP_USER", "SFTP_USER", FALSE),
             Setting("SFTP_PASS", "SFTP_PASS", FALSE),
             Setting("SFTP_REMOTE_DIR", "SFTP_REMOTE_DIR", TRUE),
             Setting("PROJECT_ID", "BQ_PROJECT", FALSE),
             Setting("DATASET_ID", "BQ_DATASET", FALSE),
             Setting("TABLE_ID", "BQ_TABLE", FALSE) }
      [] script = "initial_upload_to_bq" ->
           { Setting("PROJECT_ID", "BIGQUERY_PROJECT_ID", FALSE),
             Setting("DATASET_ID", "BIGQUERY_DATASET", FALSE),
             Setting("TABLE_ID", "BIGQUERY_TABLE", FALSE) }
      [] OTHER ->
           { Setting("SFTP_HOST", "SFTP_HOST", TRUE),
             Setting("SFTP_PORT", "SFTP_PORT", TRUE),
             Setting("SFTP_USER", "SFTP_USER", TRUE),
             Setting("SFTP_PASS", "SFTP_PASS", FALSE),
             Setting("SFTP_REMOTE_DIR", "SFTP_REMOTE_DIR", TRUE),
             Setting("SFTP_REMOTE_PATTERN", "SFTP_REMOTE_PATTERN", TRUE) }

\* os.getenv(name) returns None: the settings a run starts without.
AbsentSettings(script, env) ==
    { st.name : st \in { t \in Settings(script) : t.env \notin env /\ ~t.default } }

EnvNames == UNION { { st.env : st \in Settings(sc) } : sc \in Scripts }

\* The environments a run is started in: everything set, the BigQuery
\* variables missing, nothing set.
Environments ==
    { EnvNames,
      EnvNames \ {"BQ_PROJECT", "BQ_DATASET", "BQ_TABLE", "BIGQUERY_PROJECT_ID",
                  "BIGQUERY_DATASET", "BIGQUERY_TABLE"},
      {} }

\* -------------------------------------------------------------- CSV files
\* The refund files a run meets: two clean exports, a header-only export, an
\* export whose two labels canonicalise to the same name, and a file that
\* pd.read_csv rejects.
FileA ==
    [header |-> <<"Refund ID", "Amount ", "Status">>, n |-> 2,
     cols |-> << <<CsvInt, CsvInt>>, <<CsvFloat, CsvInt>>, <<CsvWord, CsvEmpty>> >>]
FileB ==
    [header |-> <<"Status", "Refund ID">>, n |-> 1,
     cols |-> << <<CsvWord>>, <<CsvInt>> >>]
FileHeaderOnly ==
    [header |-> <<"Refund ID", "Amount ">>, n |-> 0, cols |-> << <<>>, <<>> >>]
FileTwoAmounts ==
    [header |-> <<"Amount ", " amount">>, n |-> 1,
     cols |-> << <<CsvFloat>>, <<CsvInt>> >>]
Unparseable == [header |-> <<>>, n |-> 0, cols |-> <<>>]

CsvFiles == {FileA, FileB, FileHeaderOnly, FileTwoAmounts}
FileContents == CsvFiles \cup {Unparseable}

\* df = enforce_schema(pd.read_csv(...)) for each file above.
Normalized ==
    [v \in Scripts, b \in PandasBuilds, c \in CsvFiles |->
        enforce_schema(v, b, read_csv(c))]

HasDuplicates(columns) ==
    \E a \in 1..Len(columns) : \E b \in 1..Len(columns) :
        a # b /\ columns[a] = columns[b]

\* The labels of all the frames, each once, in order of first appearance.
RECURSIVE UnionColumns(_, _, _)
UnionColumns(all, k, acc) ==
    IF k > Len(all) THEN acc
    ELSE UnionColumns(all, k + 1,
            IF \E j \in 1..Len(acc) : acc[j] = all[k] THEN acc ELSE Append(acc, all[k]))

\* pd.concat(dfs, ignore_index=True): the rows of the frames one after the
\* other, in list order.  Frames with the same labels are stacked column by
\* column; otherwise the columns are re-indexed on the union of the labels,
\* which pandas refuses when a frame carries a label twice.
pd_concat(dfs) ==
    LET total == Len(Flatten([k \in 1..Len(dfs) |-> [r \in 1..dfs[k].n |-> k]]))
        same == \A k \in 1..Len(dfs) : dfs[k].columns = dfs[1].columns
        union == UnionColumns(Flatten([k \in 1..Len(dfs) |-> dfs[k].columns]), 1, <<>>)
        Part(k, name) ==
            LET at == Positions(dfs[k].columns, name)
            IN IF at = {} THEN [r \in 1..dfs[k].n |-> NaN]
               ELSE dfs[k].data[CHOOSE a \in at : TRUE]
    IN IF same
       THEN [ok |-> TRUE,
             df |-> [columns |-> dfs[1].columns,
                     data |-> [j \in 1..Len(dfs[1].columns) |->
                                  Flatten([k \in 1..Len(dfs) |-> dfs[k].data[j]])],
                     n |-> total]]
       ELSE IF \E k \in 1..Len(dfs) : HasDuplicates(dfs[k].columns)
       THEN [ok |-> FALSE, df |-> None]
       ELSE [ok |-> TRUE,
             df |-> [columns |-> union,
                     data |-> [j \in 1..Len(union) |->
                                  Flatten([k \in 1..Len(dfs) |-> Part(k, union[j])])],
                     n |-> total]]

\* A list that takes each new table at its head.
list_prepend(lst, df) == <<df>> \o lst

\* df_list.append(df) / dfs.append(df)
list_append(lst, df) == Append(lst, df)

\* A load that keeps the rows the table already holds (WRITE_APPEND).
AppendRows(table, df) ==
    IF table = None \/ table.columns # df.columns THEN df
    ELSE [table EXCEPT !.data = [j \in 1..Len(table.columns) |-> table.data[j] \o df.data[j]],
                       !.n = table.n + df.n]

\* load_table_from_dataframe with write_disposition="WRITE_TRUNCATE": the
\* table holds the rows of df and nothing else.
upload_to_bigquery(table, df) == df

\* ------------------------------------------------------------- the scripts
Attempt(phase, file, result) == [phase |-> phase, file |-> file, result |-> result]

\* downloads/ as a run finds it.  initial_upload_to_bq reads whatever is
\* there; upload_refund_daily may find a file of today left by an earlier run.
LocalDirs(script) ==
    CASE script = "initial_upload_to_bq" ->
           UNION { [1..k -> FileContents] : k \in 0..MaxFiles }
      [] script = "upload_refund_daily" -> { <<>>, <<FileB>> }
      [] OTHER -> { <<>> }

\* connect_sftp: paramiko.Transport(...) fails, transport.connect(...) fails,
\* SFTPClient.from_transport(...) fails, or the client is returned.
ConnectOutcomes == {"unreachable", "auth_failed", "no_channel", "ok"}

Step(next, leaving, status) == [pc |-> next, pending |-> leaving, exit_code |-> status]

\* A handler that logs the connection failure and carries on.
ConnectFailureLogged(script) == Step("list", "none", 0 - 1)

\* The except clause around connect_sftp: log, sys.exit(1).  In
\* upload_refund_daily the SystemExit first passes the finally block.
OnConnectFailure(script) ==
    IF script = "upload_refund_daily"
    THEN Step("finally", "exit1", 0 - 1)
    ELSE Step("exited", "none", 1)

\* The destination table before the run: absent, or holding the rows an
\* earlier load left there.
EarlierLoad == Normalized["initial_upload_to_bq", "new", FileB]
PriorTables == {None, EarlierLoad}

Init ==
    /\ raw = None /\ out = None /\ out2 = None
    /\ variant \in Scripts
    /\ pandas \in PandasBuilds
    /\ PipelineIdle
    /\ destination \in PriorTables
    /\ before = destination

\* The interpreter starts a script: the module-level configuration is read
\* and main() is entered.
StartRun ==
    /\ pc = "idle"
    /\ environ' \in Environments
    /\ local' \in LocalDirs(variant)
    /\ pc' = "main"
    /\ pending' = "none" /\ conn' = "none" /\ transport' = "none" /\ sftp' = "none"
    /\ files' = 0 - 1 /\ nth' = 0 /\ log' = <<>> /\ df_list' = <<>>
    /\ merged' = None /\ did' = {} /\ exit_code' = 0 - 1 /\ escaped' = FALSE
    /\ UNCHANGED <<nvars, variant, pandas, destination, before>>

\* sftp, transport = connect_sftp(...) and the handler of its failure.
Connect ==
    /\ pc = "main"
    /\ variant \in SftpScripts
    /\ did' = did \cup {"connect"}
    /\ \E outcome \in ConnectOutcomes :
          /\ conn' = outcome
          /\ transport' = IF outcome = "unreachable" THEN "none" ELSE "open"
          /\ sftp' = IF outcome = "ok" THEN "open" ELSE "none"
          /\ LET to == IF outcome = "ok" THEN Step("list", "none", 0 - 1)
                       ELSE OnConnectFailure(variant)
             IN pc' = to.pc /\ pending' = to.pending /\ exit_code' = to.exit_code
    /\ UNCHANGED <<nvars, variant, pandas, environ, files, nth, log, local,
                   df_list, merged, destination, before, escaped>>

\* list_remote_files / list_today_files: sftp.listdir succeeds with n
\* matching names, raises IOError, or raises something else (EOFError,
\* SSHException).  Only list_today_files catches, and only IOError.
ListResults == [ok : {TRUE}, n : 0..MaxFiles, err : {"none"}]
                  \cup [ok : {FALSE}, n : {0}, err : {"IOError", "other"}]

ListRemote ==
    /\ pc = "list"
    /\ \E r \in ListResults :
          LET caught == ~r.ok /\ r.err = "IOError" /\ variant = "upload_refund_daily"
              listed == r.ok \/ caught
          IN /\ did' = did \cup {"list"} \cup (IF r.ok THEN {} ELSE {"list_failed"})
             /\ files' = IF listed THEN r.n ELSE files
             /\ IF ~listed
                THEN /\ pc' = "finally"
                     /\ pending' = IF variant = "upload_refund_daily" THEN "exit1" ELSE "raise"
                ELSE IF r.n = 0
                THEN /\ pc' = "finally"
                     /\ pending' = IF variant = "upload_refunds" THEN "none" ELSE "return"
                ELSE /\ pc' = "loop"
                     /\ UNCHANGED pending
    /\ UNCHANGED <<nvars, variant, pandas, environ, conn, transport, sftp, nth, log,
                   local, df_list, merged, destination, before, exit_code, escaped>>

AfterFile(count, total) == IF count = total THEN "finally" ELSE "loop"

\* upload_refunds, one iteration of `for fname in files`:
\* read_csv_from_sftp, enforce_schema, df_list.append, all inside try/except.
ReadRemoteFile ==
    /\ pc = "loop"
    /\ variant = "upload_refunds"
    /\ nth < files
    /\ nth' = nth + 1
    /\ pc' = AfterFile(nth + 1, files)
    /\ \/ /\ log' = Append(log, Attempt("fetch", Unparseable, "get_failed"))
          /\ did' = did \cup {"get"}
          /\ UNCHANGED df_list
       \/ /\ log' = Append(log, Attempt("fetch", Unparseable, "parse_failed"))
          /\ did' = did \cup {"get", "read"}
          /\ UNCHANGED df_list
       \/ \E c \in CsvFiles :
             /\ log' = Append(log, Attempt("fetch", c, "ok"))
             /\ did' = did \cup {"get", "read", "normalize"}
             /\ df_list' = list_append(df_list, Normalized[variant, pandas, c])
    /\ UNCHANGED <<nvars, variant, pandas, environ, pending, conn, transport, sftp,
                   files, local, merged, destination, before, exit_code, escaped>>

\* upload_refund_daily, one iteration of `for fname in files`:
\* download_file, with no handler of its own; the handler of the whole try
\* block exits with status 1.
DownloadFile ==
    /\ pc = "loop"
    /\ variant = "upload_refund_daily"
    /\ nth < files
    /\ nth' = nth + 1
    /\ did' = did \cup {"get"}
    /\ \/ /\ log' = Append(log, Attempt("fetch", Unparseable, "get_failed"))
          /\ pending' = "exit1"
          /\ pc' = "finally"
          /\ UNCHANGED local
       \/ \E c \in FileContents :
             /\ log' = Append(log, Attempt("fetch", c, "ok"))
             /\ local' = Append(local, c)
             /\ pc' = AfterFile(nth + 1, files)
             /\ UNCHANGED pending
    /\ UNCHANGED <<nvars, variant, pandas, environ, conn, transport, sftp, files,
                   df_list, merged, destination, before, exit_code, escaped>>

\* download_all_refunds, one iteration of `for fname in files`:
\* download_file (skipping a file that exists locally), then a pd.read_csv
\* whose failure is only a warning; download errors are logged, `continue`.
DownloadAndValidate ==
    /\ pc = "loop"
    /\ variant = "download_all_refunds"
    /\ nth < files
    /\ nth' = nth + 1
    /\ pc' = AfterFile(nth + 1, files)
    /\ \/ /\ log' = Append(log, Attempt("fetch", Unparseable, "get_failed"))
          /\ did' = did \cup {"get"}
          /\ UNCHANGED local
       \/ \E c \in FileContents :
             \/ /\ log' = Append(log, Attempt("fetch", c, "skipped"))
                /\ did' = did \cup {"read"}
                /\ UNCHANGED local
             \/ /\ log' = Append(log, Attempt("fetch", c, "ok"))
                /\ did' = did \cup {"get", "read"}
                /\ local' = Append(local, c)
    /\ UNCHANGED <<nvars, variant, pandas, environ, pending, conn, transport, sftp,
                   files, df_list, merged, destination, before, exit_code, escaped>>

\* The finally block: sftp.close(); transport.close(), any exception
\* swallowed (an sftp.close() that raises leaves the transport open; names
\* never bound raise NameError).  Then whatever was leaving the try block
\* goes on: an exception, a sys.exit(1), a return, or the next statement.
CloseSftp ==
    /\ pc = "finally"
    /\ IF sftp = "none"
       THEN UNCHANGED <<sftp, transport>>
       ELSE \/ sftp' = "closed" /\ transport' = "closed"
            \/ UNCHANGED <<sftp, transport>>
    /\ CASE pending = "raise" -> pc' = "exited" /\ exit_code' = 1 /\ escaped' = TRUE
         [] pending = "exit1" -> pc' = "exited" /\ exit_code' = 1 /\ UNCHANGED escaped
         [] pending = "return" -> pc' = "exited" /\ exit_code' = 0 /\ UNCHANGED escaped
         [] OTHER ->
              /\ pc' = CASE variant = "upload_refunds" -> "merge"
                         [] variant = "upload_refund_daily" -> "glob"
                         [] OTHER -> "exited"
              /\ exit_code' = IF variant = "download_all_refunds" THEN 0 ELSE exit_code
              /\ UNCHANGED escaped
    /\ UNCHANGED <<nvars, variant, pandas, environ, pending, conn, files, nth, log,
                   local, df_list, merged, destination, before, did>>

\* load_csvs / load_csv_files up to the loop: glob the local CSV files;
\* with none, None is returned and main returns.
Glob ==
    /\ \/ pc = "glob"
       \/ pc = "main" /\ variant = "initial_upload_to_bq"
    /\ nth' = 0
    /\ IF local = <<>>
       THEN pc' = "exited" /\ exit_code' = 0
       ELSE pc' = "local" /\ UNCHANGED exit_code
    /\ UNCHANGED <<nvars, variant, pandas, environ, pending, conn, transport, sftp,
                   files, log, local, df_list, merged, destination, before, did, escaped>>

\* One iteration of `for f in csv_files`: pd.read_csv, enforce_schema,
\* append, inside try/except.
ReadLocalFile ==
    /\ pc = "local"
    /\ nth < Len(local)
    /\ nth' = nth + 1
    /\ pc' = IF nth + 1 = Len(local) THEN "merge" ELSE "local"
    /\ LET c == local[nth + 1]
       IN IF c = Unparseable
          THEN /\ log' = Append(log, Attempt("read", c, "parse_failed"))
               /\ did' = did \cup {"read"}
               /\ UNCHANGED df_list
          ELSE /\ log' = Append(log, Attempt("read", c, "ok"))
               /\ did' = did \cup {"read", "normalize"}
               /\ df_list' = list_append(df_list, Normalized[variant, pandas, c])
    /\ UNCHANGED <<nvars, variant, pandas, environ, pending, conn, transport, sftp,
                   files, local, merged, destination, before, exit_code, escaped>>

\* `if not df_list: return` and pd.concat(df_list, ignore_index=True); an
\* exception of pd.concat is handled nowhere.
Merge ==
    /\ pc = "merge"
    /\ IF df_list = <<>>
       THEN pc' = "exited" /\ exit_code' = 0 /\ UNCHANGED <<merged, escaped>>
       ELSE LET r == pd_concat(df_list)
            IN IF r.ok
               THEN pc' = "load" /\ merged' = r.df /\ UNCHANGED <<exit_code, escaped>>
               ELSE pc' = "exited" /\ exit_code' = 1 /\ escaped' = TRUE /\ UNCHANGED merged
    /\ UNCHANGED <<nvars, variant, pandas, environ, pending, conn, transport, sftp,
                   files, nth, log, local, df_list, destination, before, did>>

\* upload_to_bigquery / upload_to_bq: the load job replaces the table, or
\* fails (and job.result() raises) leaving the table as it was.
Upload ==
    /\ pc = "load"
    /\ did' = did \cup {"load"}
    /\ pc' = "exited"
    /\ \/ /\ destination' = upload_to_bigquery(destination, merged)
          /\ exit_code' = 0
          /\ UNCHANGED escaped
       \/ /\ exit_code' = 1
          /\ escaped' = TRUE
          /\ UNCHANGED destination
    /\ UNCHANGED <<nvars, variant, pandas, environ, pending, conn, transport, sftp,
                   files, nth, log, local, df_list, merged, before>>

Next ==
    \/ StartRun
    \/ Connect
    \/ ListRemote
    \/ ReadRemoteFile
    \/ DownloadFile
    \/ DownloadAndValidate
    \/ CloseSftp
    \/ Glob
    \/ ReadLocalFile
    \/ Merge
    \/ Upload

Spec == Init /\ [][Next]_vars

\* ---------------------------------------------------------- pipeline claims
\* The rows of a table, top to bottom.
Rows(df) == [r \in 1..df.n |-> [j \in 1..Len(df.columns) |-> df.data[j][r]]]

Fetched == SelectSeq(log, LAMBDA a : a.phase = "fetch")
Failed == SelectSeq(log, LAMBDA a : a.result \in {"get_failed", "parse_failed"})

\* The files read and normalized without error, in the order they were
\* processed.
Succeeded ==
    LET phase == IF variant = "upload_refunds" THEN "fetch" ELSE "read"
    IN SelectSeq(log, LAMBDA a : a.phase = phase /\ a.result = "ok")

\* The rows of the normalized tables of the files that succeeded, file after
\* file.
SucceededRows ==
    Flatten([k \in 1..Len(Succeeded) |->
                Rows(Normalized[variant, pandas, Succeeded[k].file])])

Loaded == pc = "exited" /\ "load" \in did /\ exit_code = 0

\* C3: in every variant, a file whose retrieval, reading or normalization
\* fails is left out of the merge, every later file is still attempted, and
\* the run loads the rows of the files that succeeded.
C3_FileFaultIsolation ==
    (pc = "exited" /\ files > 0 /\ Len(Failed) > 0) =>
        /\ Len(Fetched) = files
        /\ (variant \in LoadScripts /\ Len(Succeeded) > 0) =>
              /\ "load" \in did
              /\ merged # None
              /\ Rows(merged) = SucceededRows

\* C4: after a run whose load succeeded, the destination holds exactly the
\* rows of that run's merged table and none of an earlier load.
C4_FullReplace == Loaded => destination = merged

C4_Witness ==
    /\ Loaded
    /\ before = EarlierLoad
    /\ merged.n > 0
    /\ Rows(merged) # Rows(EarlierLoad)

\* C5: the merged table is the concatenation of the normalized tables of the
\* successfully processed files, in processing order, each file's rows in
\* their own order.
C5_MergeOrder == merged # None => Rows(merged) = SucceededRows

C5_Witness ==
    /\ merged # None
    /\ Len(Succeeded) >= 2
    /\ Succeeded[1].file.n > 1
    /\ Succeeded[2].file.n > 0
    /\ Succeeded[1].file # Succeeded[2].file

\* C7: the load is never invoked with a merged table of zero rows.
C7_NoEmptyLoad == "load" \in did => merged.n > 0

\* C8: a run whose connection fails exits with a non-zero status having
\* listed, retrieved, normalized and loaded nothing; a run that connects and
\* finds no file exits with status 0.
C8_ConnectFailureIsFatal ==
    /\ conn \notin {"none", "ok"} =>
          /\ did = {"connect"}
          /\ pc = "exited" => exit_code > 0
    /\ (pc = "exited" /\ conn = "ok" /\ files = 0) => exit_code = 0

C8_Witness ==
    /\ pc = "exited"
    /\ conn \in {"unreachable", "auth_failed", "no_channel"}
    /\ exit_code = 1

\* C9: when the connection succeeds and the listing fails, no exception
\* leaves main, no file is processed, the load is not invoked and the exit
\* status is not a failure.
C9_ListingFailureIsGraceful ==
    (pc = "exited" /\ "list_failed" \in did) =>
        /\ ~escaped
        /\ log = <<>>
        /\ "load" \notin did
        /\ exit_code = 0

\* C10: connect_sftp is not called while a configuration value is absent.
C10_ConfigValidatedBeforeConnect ==
    "connect" \in did => AbsentSettings(variant, environ) = {}

\* The phase main is in: 0 INIT (configuration, connect), 1 DISCOVER_FILES
\* (the listing), 2 PROCESS_FILES (the per-file loops, the finally block,
\* the local glob and its loop), 3 MERGE, 4 LOAD, 5 DONE.
Phase ==
    CASE pc \in {"idle", "main"} -> 0
      [] pc = "list" -> 1
      [] pc \in {"loop", "finally", "glob", "local"} -> 2
      [] pc = "merge" -> 3
      [] pc = "load" -> 4
      [] OTHER -> 5

\* Every file the run discovered has been attempted: the remote files of
\* the listing, and for the scripts that read downloads/, the local files.
AllAttempted ==
    /\ variant \in SftpScripts => Len(Fetched) = files
    /\ variant # "upload_refunds" =>
          Len(SelectSeq(log, LAMBDA a : a.phase = "read")) = Len(local)

\* The phases only advance, and nothing follows DONE, so the load is
\* invoked at most once.
PhasesAdvance == [][Phase' >= Phase /\ pc # "exited"]_vars

\* The load comes after every discovered file was attempted and at least
\* one was normalized.
LoadComesLast ==
    (pc = "load" \/ "load" \in did) => AllAttempted /\ Len(Succeeded) > 0

\* A run that got past INIT (its connection, if it makes one, was
\* established) and ended having discovered no file or normalized none.
NothingToLoad ==
    /\ variant \in SftpScripts => conn = "ok"
    /\ pc = "exited"
    /\ \/ variant \in SftpScripts /\ files <= 0
       \/ variant = "initial_upload_to_bq" /\ local = <<>>
       \/ Len(Succeeded) = 0

\* C11: the phases are passed in the order INIT, DISCOVER_FILES,
\* PROCESS_FILES, MERGE, LOAD, DONE and never backwards; the load is invoked
\* at most once, after every discovered file was attempted and only with a
\* file normalized; with no file discovered or none normalized the run is a
\* no-op success without a load.
C11_PhaseOrder ==
    /\ PhasesAdvance
    /\ [](LoadComesLast)
    /\ [](NothingToLoad => exit_code = 0 /\ "load" \notin did)

\* The source phase is over: main is past the finally block, or the process
\* has ended.
SourcePhaseOver == pc \in {"glob", "local", "merge", "load", "exited"}

\* C12: once a transport has been created, both the SFTP client and the
\* transport are closed before the run goes on to the load or terminates,
\* whatever failed in between.
C12_ConnectionReleased ==
    (SourcePhaseOver /\ transport # "none") =>
        /\ transport = "closed"
        /\ sftp \in {"none", "closed"}

====
